---- MODULE Spec2Model ----
(***************************************************************************)
(* A model of the numerical core of the three-body chaos study:            *)
(*   numerical_methods.py  VerletIntegrator (add_body, reset,              *)
(*                         calculate_accelerations, simulate)              *)
(*   data_analysis.py      calculate_orbit_elements,                       *)
(*                         calculate_lyapunov_exponent                     *)
(*                                                                         *)
(* Numbers.  The program computes in binary floating point.  The model     *)
(* computes in decimal floating point with Digits significant digits:      *)
(* a number is a pair <<m, e>> standing for m * 10^e, with m = 0 and       *)
(* e = 0 for zero and 10^(Digits-1) <= |m| < 10^Digits otherwise, and      *)
(* every operation rounds its exact result to the nearest such number.     *)
(* The pairs <<0, 1>>, <<0, 2>> and <<0, 3>> (a zero mantissa under a      *)
(* non-zero exponent, which no rounding produces) stand for NaN, +inf and  *)
(* -inf where numpy's division and logarithm produce them.                 *)
(***************************************************************************)
EXTENDS Integers, Sequences, FiniteSets, TLC

\* Significant decimal digits of the model's floating-point numbers.
Digits == 3
\* Most bodies an integrator holds.
MaxBodies == 2
\* Most integration steps executed since construction or the last reset().
MaxSteps == 2
\* Most samples in a trajectory handed to calculate_lyapunov_exponent.
MaxSamples == 4

----------------------------------------------------------------------------
(* Floating-point arithmetic *)

RECURSIVE Pow10(_)
Pow10(k) == IF k <= 0 THEN 1 ELSE 10 * Pow10(k - 1)

RECURSIVE NumDigits(_)
NumDigits(n) == IF n < 10 THEN 1 ELSE 1 + NumDigits(n \div 10)

Abs(n) == IF n < 0 THEN -n ELSE n

Sgn(n) == IF n < 0 THEN -1 ELSE IF n > 0 THEN 1 ELSE 0

\* The float nearest to m * 10^e (ties away from zero).
Round(m, e) ==
    IF m = 0 THEN <<0, 0>>
    ELSE LET a == Abs(m)
             k == NumDigits(a) - Digits
         IN  IF k <= 0 THEN <<m * Pow10(-k), e + k>>
             ELSE LET q == (a + (Pow10(k) \div 2)) \div Pow10(k)
                  IN  IF q = Pow10(Digits)
                      THEN <<Sgn(m) * Pow10(Digits - 1), e + k + 1>>
                      ELSE <<Sgn(m) * q, e + k>>

Zero == <<0, 0>>
NaN == <<0, 1>>
PosInf == <<0, 2>>
NegInf == <<0, 3>>

IsFinite(a) == a[1] # 0 \/ a[2] = 0

\* A float literal m * 10^e and the float of an integer.
F(m, e) == Round(m, e)
FromInt(n) == Round(n, 0)

FNeg(a) == <<-a[1], a[2]>>

FAdd(a, b) ==
    IF a[1] = 0 THEN b
    ELSE IF b[1] = 0 THEN a
    ELSE LET hi == IF a[2] >= b[2] THEN a ELSE b
             lo == IF a[2] >= b[2] THEN b ELSE a
             d  == hi[2] - lo[2]
         IN  IF d >= Digits + 2 THEN hi
             ELSE Round(hi[1] * Pow10(d) + lo[1], lo[2])

FSub(a, b) == FAdd(a, FNeg(b))

FMul(a, b) == Round(a[1] * b[1], a[2] + b[2])

\* a / b for b # 0.
FDiv(a, b) ==
    LET q == (Abs(a[1]) * Pow10(Digits + 1)) \div Abs(b[1])
    IN  Round(Sgn(a[1]) * Sgn(b[1]) * q, a[2] - b[2] - (Digits + 1))

FLt(a, b) == FSub(a, b)[1] < 0
FLe(a, b) == FSub(a, b)[1] <= 0
FAbs(a) == <<Abs(a[1]), a[2]>>

\* The largest k with k * k <= n, found by bisection of lo..hi.
RECURSIVE ISqrtIn(_, _, _)
ISqrtIn(n, lo, hi) ==
    IF lo >= hi THEN lo
    ELSE LET mid == (lo + hi + 1) \div 2
         IN  IF mid * mid <= n THEN ISqrtIn(n, mid, hi)
             ELSE ISqrtIn(n, lo, mid - 1)

\* sqrt(a) for a >= 0: the mantissa is widened by an even power of ten so
\* that the integer root carries at least Digits digits.
FSqrt(a) ==
    IF a[1] = 0 THEN Zero
    ELSE LET odd == (a[2] % 2) # 0
             m   == (IF odd THEN a[1] * 10 ELSE a[1]) * Pow10(4)
             e   == (IF odd THEN a[2] - 1 ELSE a[2]) - 4
         IN  Round(ISqrtIn(m, 0, 40000), e \div 2)

\* int(x): truncation toward zero.
FToInt(a) ==
    IF a[2] >= 0 THEN a[1] * Pow10(a[2])
    ELSE Sgn(a[1]) * (Abs(a[1]) \div Pow10(-a[2]))

\* Python's // and % on integers (floor division; the sign of the
\* remainder follows the divisor), for b # 0.
PyFloorDiv(a, b) ==
    IF b > 0 THEN a \div b ELSE (-a) \div (-b)

PyMod(a, b) == a - b * PyFloorDiv(a, b)

\* numpy's float64 division: a zero divisor gives nan or an infinity.
NpDiv(a, b) ==
    IF b[1] # 0 THEN FDiv(a, b)
    ELSE IF a[1] = 0 THEN NaN
    ELSE IF a[1] > 0 THEN PosInf ELSE NegInf

----------------------------------------------------------------------------
(* Vectors of three floats *)

ZeroVec == <<Zero, Zero, Zero>>

VAdd(u, v) == <<FAdd(u[1], v[1]), FAdd(u[2], v[2]), FAdd(u[3], v[3])>>
VSub(u, v) == <<FSub(u[1], v[1]), FSub(u[2], v[2]), FSub(u[3], v[3])>>
VScale(s, v) == <<FMul(s, v[1]), FMul(s, v[2]), FMul(s, v[3])>>
VDivS(v, s) == <<FDiv(v[1], s), FDiv(v[2], s), FDiv(v[3], s)>>
VDot(u, v) == FAdd(FAdd(FMul(u[1], v[1]), FMul(u[2], v[2])), FMul(u[3], v[3]))
VCross(u, v) ==
    <<FSub(FMul(u[2], v[3]), FMul(u[3], v[2])),
      FSub(FMul(u[3], v[1]), FMul(u[1], v[3])),
      FSub(FMul(u[1], v[2]), FMul(u[2], v[1]))>>
\* np.linalg.norm
VNorm(v) == FSqrt(VDot(v, v))

----------------------------------------------------------------------------
(* Program constants and the inputs the model draws from *)

\* 86400, the seconds of a day (simulate's unit conversion).
SecondsPerDay == F(864, 2)
\* 0.5 in the position and velocity updates.
Half == F(5, -1)
\* 1e-10, the distance below which a pair's attraction is skipped.
Epsilon == F(1, -10)

\* The constructor's argument G.
GChoices == {F(667, -13)}

\* add_body's arguments: a heavy primary at rest and a light body moving
\* across the line that joins them.
BodyChoices ==
    { [mass |-> F(1, 20), position |-> ZeroVec, velocity |-> ZeroVec],
      [mass |-> F(1, 18), position |-> <<F(3, 6), Zero, Zero>>,
                          velocity |-> <<Zero, F(5, 1), Zero>>] }

\* simulate's arguments (total_days, dt, output_interval).
SimChoices ==
    { <<F(5, -1),   F(432, 2),  F(5, -1)>>,    \* 1 step, sampled every step
      <<F(-5, -1),  F(-432, 2), F(-5, -1)>>,   \* 1 step backward
      <<F(75, -2),  F(432, 2),  F(75, -2)>>,   \* duration, interval: 1.5 steps
      <<F(5, -1),   F(432, 2),  F(1, 0)>>,     \* 1 step, sampled every 2nd
      <<F(1, 0),    F(432, 2),  F(5, -1)>>,    \* 2 steps, sampled every step
      <<F(1, 0),    F(432, 2),  F(1, 0)>>,     \* 2 steps, sampled every 2nd
      <<F(15, -1),  F(432, 2),  F(1, 0)>>,     \* 3 steps, sampled every 2nd
      <<F(25, -2),  F(432, 2),  F(5, -1)>>,    \* duration below one step
      <<F(1, 0),    F(432, 2),  F(25, -2)>>,   \* interval below one step
      <<F(5, -1),   Zero,       F(5, -1)>>,    \* dt = 0
      <<F(-5, -1),  F(432, 2),  F(5, -1)>>,    \* negative duration: -1 step
      <<F(-1, 0),   F(432, 2),  F(5, -1)>> }   \* negative duration: -2 steps

----------------------------------------------------------------------------
(* VerletIntegrator: the object's fields as a record *)

\* __init__(G)
NewIntegrator(G) ==
    [G |-> G, bodies |-> <<>>, positions |-> <<>>, velocities |-> <<>>,
     times |-> <<>>]

add_body(self, mass, position, velocity) ==
    [self EXCEPT !.bodies =
        Append(@, [mass |-> mass, position |-> position,
                   velocity |-> velocity, acceleration |-> ZeroVec])]

\* reset() that forgets to clear the body list
reset_keeping_bodies(self) ==
    [self EXCEPT !.positions = <<>>, !.velocities = <<>>, !.times = <<>>]

reset(self) ==
    [self EXCEPT !.bodies = <<>>, !.positions = <<>>, !.velocities = <<>>,
                 !.times = <<>>]

\* The inner loop of calculate_accelerations: the acceleration of body i
\* summed over the bodies 1..j in order.
RECURSIVE AccelerationOn(_, _, _, _)
AccelerationOn(bodies, G, i, j) ==
    IF j = 0 THEN ZeroVec
    ELSE LET acc  == AccelerationOn(bodies, G, i, j - 1)
             r_ij == VSub(bodies[j].position, bodies[i].position)
             r    == VNorm(r_ij)
         IN  IF i = j THEN acc
             ELSE IF FLt(r, Epsilon) THEN acc
             ELSE VAdd(acc, VDivS(VScale(FMul(G, bodies[j].mass), r_ij),
                                  FMul(FMul(r, r), r)))

calculate_accelerations(bodies, G) ==
    [i \in 1..Len(bodies) |->
        [bodies[i] EXCEPT !.acceleration =
            AccelerationOn(bodies, G, i, Len(bodies))]]

\* body["position"] += body["velocity"] * dt + 0.5 * body["acceleration"] * dt**2
UpdatePositions(bodies, dt) ==
    [i \in 1..Len(bodies) |->
        [bodies[i] EXCEPT !.position =
            VAdd(@, VAdd(VScale(dt, bodies[i].velocity),
                         VScale(FMul(dt, dt),
                                VScale(Half, bodies[i].acceleration))))]]

\* body["velocity"] += 0.5 * (body["acceleration"] + body["acceleration"]) * dt
UpdateVelocities(bodies, dt) ==
    [i \in 1..Len(bodies) |->
        [bodies[i] EXCEPT !.velocity =
            VAdd(@, VScale(dt, VScale(Half, VAdd(bodies[i].acceleration,
                                                 bodies[i].acceleration))))]]

\* Steps 1 to 4 of one iteration of simulate's loop.
VerletStep(bodies, G, dt) ==
    LET b1 == calculate_accelerations(bodies, G)
        b2 == UpdatePositions(b1, dt)
        b3 == calculate_accelerations(b2, G)
    IN  UpdateVelocities(b3, dt)

\* math.ceil in place of int
StepCountCeil(days, dt) ==
    LET q == FDiv(FMul(days, SecondsPerDay), dt)
    IN  IF FLt(FromInt(FToInt(q)), q) THEN FToInt(q) + 1 ELSE FToInt(q)

\* int(days * 86400 / dt), for dt # 0
StepCount(days, dt) == FToInt(FDiv(FMul(days, SecondsPerDay), dt))

\* the allocation without the row for the last sample
RowCountNoSpare(total_steps, output_steps) ==
    PyFloorDiv(total_steps, output_steps)

\* total_steps//output_steps + 1, the rows of the three record arrays
RowCount(total_steps, output_steps) ==
    PyFloorDiv(total_steps, output_steps) + 1

PositionsOf(bodies) == [i \in 1..Len(bodies) |-> bodies[i].position]
VelocitiesOf(bodies) == [i \in 1..Len(bodies) |-> bodies[i].velocity]

\* The arrays as allocated and with row 0 written.
InitialRecords(self, rows) ==
    [self EXCEPT
        !.positions = [r \in 1..rows |->
            IF r = 1 THEN PositionsOf(self.bodies)
            ELSE [i \in 1..Len(self.bodies) |-> ZeroVec]],
        !.velocities = [r \in 1..rows |->
            IF r = 1 THEN VelocitiesOf(self.bodies)
            ELSE [i \in 1..Len(self.bodies) |-> ZeroVec]],
        !.times = [r \in 1..rows |-> Zero]]

\* np.zeros of no rows, left in the fields when row 0 cannot be written
\* (positions[0, i] with bodies, times[0] without).
EmptyRecords(self) ==
    [self EXCEPT !.positions = <<>>, !.velocities = <<>>, !.times = <<>>]

\* Step 5 of the iteration: the sample written at row output_idx.
WriteSample(self, output_idx, current_time) ==
    [self EXCEPT
        !.positions[output_idx + 1] = PositionsOf(self.bodies),
        !.velocities[output_idx + 1] = VelocitiesOf(self.bodies),
        !.times[output_idx + 1] = FDiv(current_time, SecondsPerDay)]

\* arr[:n]
Prefix(arr, n) == SubSeq(arr, 1, IF n < Len(arr) THEN n ELSE Len(arr))

\* Lines 46 to 59 of simulate: the step counts, the allocation and row 0.
\* error is "" when the loop is entered.
simulate_setup(self, total_days, dt, output_interval) ==
    IF dt = Zero
    THEN [self |-> self, error |-> "ZeroDivisionError",
          total_steps |-> 0, output_steps |-> 0]
    ELSE LET total_steps  == StepCount(total_days, dt)
             output_steps == StepCount(output_interval, dt)
         IN  IF output_steps = 0
             THEN [self |-> self, error |-> "ZeroDivisionError",
                   total_steps |-> total_steps, output_steps |-> 0]
             ELSE LET rows == RowCount(total_steps, output_steps)
                  IN  IF rows < 0
                      THEN [self |-> self, error |-> "ValueError",
                            total_steps |-> total_steps,
                            output_steps |-> output_steps]
                      ELSE IF rows = 0
                      THEN [self |-> EmptyRecords(self), error |-> "IndexError",
                            total_steps |-> total_steps,
                            output_steps |-> output_steps]
                      ELSE [self |-> InitialRecords(self, rows), error |-> "",
                            total_steps |-> total_steps,
                            output_steps |-> output_steps]

\* t % output_steps == 0
IsOutputStep(t, output_steps) == PyMod(t, output_steps) = 0

\* Lines 65 to 88 of simulate: one iteration of the loop.
simulate_iteration(self, dt, t, output_steps, output_idx) ==
    LET current_time == FMul(FromInt(t), dt)
        stepped == [self EXCEPT !.bodies = VerletStep(@, self.G, dt)]
    IN  IF ~IsOutputStep(t, output_steps)
        THEN [self |-> stepped, error |-> "", output_idx |-> output_idx]
        ELSE IF output_idx >= Len(stepped.times)
        THEN [self |-> stepped, error |-> "IndexError",
              output_idx |-> output_idx]
        ELSE [self |-> WriteSample(stepped, output_idx, current_time),
              error |-> "", output_idx |-> output_idx + 1]

\* Line 91 of simulate.
simulate_return(self, output_idx) ==
    [kind |-> "return",
     times |-> Prefix(self.times, output_idx),
     positions |-> Prefix(self.positions, output_idx),
     velocities |-> Prefix(self.velocities, output_idx)]

Raise(error) == [kind |-> "raise", error |-> error]
NoOutcome == [kind |-> "none"]

----------------------------------------------------------------------------
(* data_analysis.py: calculate_orbit_elements *)

One == F(1, 0)
Two == F(2, 0)
\* 6.67430e-11, written out in the module's functions.
GConst == F(667430, -16)
z_axis == <<Zero, Zero, One>>

\* An angle is kept as the expression that yields it: zero, np.arccos of
\* an argument, 2*pi minus one of these, or nan.  np.arccos gives nan for
\* nan and for an argument outside [-1, 1].
ZeroAngle == [fn |-> "zero", arg |-> Zero]
NaNAngle == [fn |-> "nan", arg |-> Zero]
Arccos(x) ==
    IF x = NaN \/ x = PosInf \/ x = NegInf THEN NaNAngle
    ELSE IF FLt(One, FAbs(x)) THEN NaNAngle
    ELSE [fn |-> "arccos", arg |-> x]
TwoPiMinus(angle) ==
    IF angle.fn = "nan" THEN angle
    ELSE [fn |-> "2pi-" \o angle.fn, arg |-> angle.arg]

\* The positions and velocities the model hands in are non-zero and
\* mass_primary is positive, so r, v and G*M are positive.
h_vector(position, velocity) == VCross(position, velocity)

e_vector(position, velocity, mass_primary) ==
    LET r    == VNorm(position)
        v    == VNorm(velocity)
        mu_r == NpDiv(FMul(GConst, mass_primary), r)
    IN  VScale(FDiv(One, FMul(GConst, mass_primary)),
               VSub(VScale(FSub(FMul(v, v), mu_r), position),
                    VScale(VDot(position, velocity), velocity)))

n_vector(position, velocity) == VCross(z_axis, h_vector(position, velocity))

calculate_orbit_elements(position, velocity, mass_primary) ==
    LET r      == VNorm(position)
        v      == VNorm(velocity)
        energy == FSub(FMul(Half, FMul(v, v)),
                       NpDiv(FMul(GConst, mass_primary), r))
        a      == IF FLt(energy, Zero)
                  THEN NpDiv(FMul(FNeg(GConst), mass_primary),
                             FMul(Two, energy))
                  ELSE PosInf
        h      == h_vector(position, velocity)
        h_norm == VNorm(h)
        ev     == e_vector(position, velocity, mass_primary)
        e      == VNorm(ev)
        i      == IF FLt(Zero, h_norm)
                  THEN Arccos(NpDiv(VDot(h, z_axis), h_norm))
                  ELSE ZeroAngle
        n      == n_vector(position, velocity)
        n_norm == VNorm(n)
        Omega0 == IF FLt(Zero, n_norm)
                  THEN Arccos(NpDiv(n[1], n_norm))
                  ELSE ZeroAngle
        Omega  == IF FLt(n[2], Zero) THEN TwoPiMinus(Omega0) ELSE Omega0
        w0     == Arccos(NpDiv(VDot(n, ev), FMul(n_norm, e)))
        w      == IF FLt(e, One) /\ FLt(Zero, n_norm)
                  THEN IF FLt(ev[3], Zero) THEN TwoPiMinus(w0) ELSE w0
                  ELSE ZeroAngle
    IN  [semi_major_axis |-> a, eccentricity |-> e, inclination |-> i,
         ascending_node |-> Omega, argument_of_periapsis |-> w]

\* Arguments: positions on the x axis at the radius of the unit-speed
\* circular orbit (G*M) and at twice it; velocities in and out of the
\* reference plane, below, at and above the circular speed.
OrbitMasses == {F(1, 11), F(2, 11), F(5, 10)}
OrbitPositions(M) ==
    { <<FMul(GConst, M), Zero, Zero>>,
      <<FMul(Two, FMul(GConst, M)), Zero, Zero>>,
      <<Zero, FMul(GConst, M), Zero>>,
      <<FMul(F(3, 0), FMul(GConst, M)), FMul(F(4, 0), FMul(GConst, M)), Zero>> }
OrbitVelocities ==
    { <<Zero, Zero, One>>, <<Zero, One, Zero>>, <<Zero, F(6, -1), F(8, -1)>>,
      <<Zero, Zero, F(8, -1)>>, <<Zero, F(8, -1), Zero>>,
      <<Zero, Zero, F(-8, -1)>>, <<One, Zero, Two>>, <<F(5, -1), Zero, F(-5,-1)>>,
      <<One, Zero, Zero>>, <<Zero, F(-1, 0), Zero>> }

----------------------------------------------------------------------------
(* data_analysis.py: calculate_lyapunov_exponent *)

\* A logarithm or a fitted slope is kept as the expression that yields it,
\* except where numpy's value is 0, nan or an infinity.
Num(x) == [v |-> "num", x |-> x]
NpLog(x) ==
    IF x = NaN THEN [v |-> "nan", x |-> Zero]
    ELSE IF x = PosInf THEN [v |-> "inf", x |-> Zero]
    ELSE IF x = Zero THEN [v |-> "-inf", x |-> Zero]
    ELSE IF x = One THEN Num(Zero)
    ELSE [v |-> "log", x |-> x]

IsFiniteLog(l) == l.v \in {"num", "log"}

\* zip(trajectory1, trajectory2) and the distance of the entries at index 1
PairCount(trajectory1, trajectory2) ==
    IF Len(trajectory1) < Len(trajectory2) THEN Len(trajectory1)
    ELSE Len(trajectory2)
Distances(trajectory1, trajectory2) ==
    [k \in 1..PairCount(trajectory1, trajectory2) |->
        VNorm(VSub(trajectory1[k][2], trajectory2[k][2]))]

\* np.polyfit(x, y, 1): the outcomes it can have.  An empty x is a
\* TypeError.  The design matrix [x, 1] is scaled by its column norms, so
\* an all-zero x column turns into nan; with a nan or an infinity in the
\* matrix or in y, the LAPACK least-squares routine either fails to
\* converge (LinAlgError) or hands back nan, depending on the build.
polyfit(xs, ys) ==
    IF Len(xs) = 0 THEN {Raise("TypeError")}
    ELSE IF (\A k \in 1..Len(xs) : xs[k] = Zero)
            \/ (\E k \in 1..Len(ys) : ~IsFiniteLog(ys[k]))
    THEN {Raise("LinAlgError"),
          [kind |-> "return", slope |-> [v |-> "nan", x |-> Zero]]}
    ELSE {[kind |-> "return", slope |-> [v |-> "lstsq", x |-> <<xs, ys>>]]}

\* The outcomes of calculate_lyapunov_exponent.
calculate_lyapunov_exponent(trajectory1, trajectory2, time_step) ==
    LET distances == Distances(trajectory1, trajectory2)
    IN  IF Len(distances) = 0 THEN {Raise("IndexError")}
        ELSE LET initial_distance == distances[1]
                 log_distances ==
                     [k \in 1..Len(distances) |->
                         NpLog(NpDiv(distances[k], initial_distance))]
                 times ==
                     [k \in 1..Len(distances) |->
                         FDiv(FMul(FromInt(k - 1), time_step), SecondsPerDay)]
                 valid_indices == FToInt(FMul(FromInt(Len(times)), Half))
             IN  { IF fit.kind = "raise" THEN fit
                   ELSE [kind |-> "return", slope |-> fit.slope,
                         times |-> times, log_distances |-> log_distances] :
                   fit \in polyfit(SubSeq(times, 1, valid_indices),
                                   SubSeq(log_distances, 1, valid_indices)) }

\* Arguments: a sample is <<entry 0, entry 1>>; the first trajectory keeps
\* entry 1 at the origin, the second moves it along the x axis.
RECURSIVE SeqsUpTo(_, _)
SeqsUpTo(S, n) ==
    IF n = 0 THEN {<<>>}
    ELSE LET shorter == SeqsUpTo(S, n - 1)
         IN  shorter \cup {Append(q, x) : q \in shorter, x \in S}
BaseSample == <<ZeroVec, ZeroVec>>
MovedSamples ==
    { <<ZeroVec, <<x, Zero, Zero>>>> : x \in {Zero, One, F(3, 0)} }
TimeSteps == {F(432, 2), Zero}

----------------------------------------------------------------------------
(* The state *)

VARIABLES
    self,          \* the integrator's fields
    pc,            \* "idle", or "loop" inside simulate's loop
    total_steps, output_steps, dt, t, output_idx, step,  \* simulate's locals
    outcome,       \* what the last call returned or raised
    fresh,         \* history: a newly constructed integrator (same G) given
                   \* the calls made since the last reset()
    call,          \* history: the last simulate call, its arguments, the
                   \* bodies it started from, its iterations and sample steps
    steps_done,    \* history: integration steps since the last reset()
    was_reset,     \* history: a reset() has discarded a recorded run
    orbit,         \* calculate_orbit_elements: its arguments and result
    lyap           \* calculate_lyapunov_exponent: arguments and outcome

locals == <<total_steps, output_steps, dt, t, output_idx, step>>
history == <<fresh, call, steps_done, was_reset>>
analysis == <<orbit, lyap>>
vars == <<self, pc, locals, outcome, history, analysis>>

NoRun == [made |-> FALSE, dt |-> Zero, steps |-> 0, start |-> <<>>]
NoCall ==
    [made |-> FALSE, total_days |-> Zero, dt |-> Zero,
     output_interval |-> Zero, total_steps |-> 0, output_steps |-> 0,
     start |-> <<>>, iters |-> 0, sampled |-> {}, before |-> NoRun]

ClearLocals ==
    /\ total_steps' = 0 /\ output_steps' = 0 /\ dt' = Zero
    /\ t' = 0 /\ output_idx' = 0 /\ step' = 0

NoOrbit ==
    [position |-> ZeroVec, velocity |-> ZeroVec, mass_primary |-> Zero,
     result |-> NoOutcome]
NoLyap ==
    [trajectory1 |-> <<>>, trajectory2 |-> <<>>, time_step |-> Zero,
     result |-> NoOutcome]

IntegratorInit ==
    /\ self \in {NewIntegrator(G) : G \in GChoices}
    /\ fresh = self
    /\ pc = "idle"
    /\ total_steps = 0 /\ output_steps = 0 /\ dt = Zero
    /\ t = 0 /\ output_idx = 0 /\ step = 0
    /\ outcome = NoOutcome
    /\ call = NoCall
    /\ steps_done = 0
    /\ was_reset = FALSE

Init == IntegratorInit /\ orbit = NoOrbit /\ lyap = NoLyap

AddBody(b) ==
    /\ pc = "idle"
    /\ Len(self.bodies) < MaxBodies
    /\ self' = add_body(self, b.mass, b.position, b.velocity)
    /\ fresh' = add_body(fresh, b.mass, b.position, b.velocity)
    /\ outcome' = NoOutcome
    /\ call' = NoCall
    /\ UNCHANGED <<pc, locals, steps_done, was_reset, analysis>>

Reset ==
    /\ pc = "idle"
    /\ self' = reset(self)
    /\ fresh' = NewIntegrator(self.G)
    /\ outcome' = NoOutcome
    /\ call' = NoCall
    /\ steps_done' = 0
    /\ was_reset' = (was_reset \/ Len(self.times) > 0)
    /\ UNCHANGED <<pc, locals, analysis>>

Simulate(total_days, d, output_interval) ==
    /\ pc = "idle"
    /\ \E s \in {simulate_setup(self, total_days, d, output_interval)},
          f \in {simulate_setup(fresh, total_days, d, output_interval)} :
           /\ s.error = "" /\ s.total_steps > 0
                => steps_done + s.total_steps <= MaxSteps
           /\ self' = s.self
           /\ fresh' = f.self
           /\ IF s.error = ""
              THEN /\ pc' = "loop"
                   /\ total_steps' = s.total_steps
                   /\ output_steps' = s.output_steps
                   /\ dt' = d
                   /\ t' = 0 /\ output_idx' = 0 /\ step' = 0
                   /\ outcome' = NoOutcome
                   /\ call' = [made |-> TRUE, total_days |-> total_days,
                               dt |-> d, output_interval |-> output_interval,
                               total_steps |-> s.total_steps,
                               output_steps |-> s.output_steps,
                               start |-> self.bodies, iters |-> 0,
                               sampled |-> {},
                               before |-> IF outcome.kind = "return"
                                          THEN [made |-> TRUE, dt |-> call.dt,
                                                steps |-> call.iters,
                                                start |-> call.start]
                                          ELSE NoRun]
              ELSE /\ pc' = "idle"
                   /\ ClearLocals
                   /\ outcome' = Raise(s.error)
                   /\ call' = [NoCall EXCEPT
                                 !.made = (s.error # "ZeroDivisionError"),
                                 !.total_steps = s.total_steps,
                                 !.output_steps = s.output_steps]
    /\ UNCHANGED <<steps_done, was_reset, analysis>>

Iterate ==
    /\ pc = "loop"
    /\ t < total_steps
    /\ \E it \in {simulate_iteration(self, dt, t, output_steps, output_idx)},
          ft \in {simulate_iteration(fresh, dt, t, output_steps, output_idx)} :
           /\ self' = it.self
           /\ fresh' = ft.self
           /\ call' = [call EXCEPT !.iters = @ + 1,
                          !.sampled = IF it.output_idx > output_idx
                                      THEN @ \cup {t} ELSE @]
           /\ IF it.error = ""
              THEN /\ pc' = "loop"
                   /\ t' = t + 1
                   /\ output_idx' = it.output_idx
                   /\ step' = step + (it.output_idx - output_idx)
                   /\ outcome' = outcome
                   /\ UNCHANGED <<total_steps, output_steps, dt>>
              ELSE /\ pc' = "idle"
                   /\ ClearLocals
                   /\ outcome' = Raise(it.error)
    /\ steps_done' = steps_done + 1
    /\ UNCHANGED <<was_reset, analysis>>

Return ==
    /\ pc = "loop"
    /\ t >= total_steps
    /\ outcome' = simulate_return(self, output_idx)
    /\ pc' = "idle"
    /\ ClearLocals
    /\ UNCHANGED <<self, history, analysis>>

Next ==
    \/ \E b \in BodyChoices : AddBody(b)
    \/ Reset
    \/ \E a \in SimChoices : Simulate(a[1], a[2], a[3])
    \/ Iterate
    \/ Return

Spec == Init /\ [][Next]_vars

----------------------------------------------------------------------------
(* Properties of VerletIntegrator *)

Returned == outcome.kind = "return" /\ call.made

\* The step of the behaviour is an iteration of simulate's loop.
IsIteration == pc = "loop" /\ steps_done' = steps_done + 1

\* C1: in every integration step each body's velocity becomes
\* vel + 0.5*(acc_old + acc_new)*dt, acc_old computed at the positions
\* before the step's position update, acc_new at the positions after it.
C1_VelocityAveragesOldAndNew ==
    [][IsIteration =>
        \A i \in 1..Len(self.bodies) :
            self'.bodies[i].velocity =
                VAdd(self.bodies[i].velocity,
                     VScale(dt, VScale(Half,
                        VAdd(calculate_accelerations(self.bodies, self.G)[i]
                                 .acceleration,
                             self'.bodies[i].acceleration))))]_vars

\* C2: sample 0 of the returned trajectory is the initial condition: the
\* positions and velocities simulate was called with, at time 0.
C2_SampleZeroIsInitial ==
    Returned =>
        /\ Len(outcome.times) >= 1
        /\ outcome.positions[1] = PositionsOf(call.start)
        /\ outcome.velocities[1] = VelocitiesOf(call.start)
        /\ outcome.times[1] = Zero

\* output_interval*86400/dt is a positive whole number
IsPositiveMultiple(interval, d) ==
    LET q == FDiv(FMul(interval, SecondsPerDay), d)
    IN  FToInt(q) >= 1 /\ FromInt(FToInt(q)) = q

\* C4: no integration step is executed for a sample interval that is not
\* a positive integer multiple of dt.
C4_NonMultipleIntervalRejected ==
    call.made /\ call.iters >= 1 =>
        IsPositiveMultiple(call.output_interval, call.dt)

\* The tolerance of the comparison, as a fraction of the largest
\* magnitude in the original state.
Tolerance == F(5, -2)
Largest(vs) ==
    IF Len(vs) = 0 THEN Zero
    ELSE CHOOSE x \in {VNorm(vs[i]) : i \in 1..Len(vs)} :
            \A i \in 1..Len(vs) : FLe(VNorm(vs[i]), x)
Close(us, vs) ==
    \A i \in 1..Len(vs) :
        FLe(VNorm(VSub(us[i], vs[i])), FMul(Tolerance, Largest(vs)))

\* The run that returned undid the run before it: the same number of
\* steps with the step size negated.
RanBackAndForth ==
    /\ Returned
    /\ call.before.made
    /\ call.dt = FNeg(call.before.dt)
    /\ call.iters = call.before.steps
    /\ call.iters >= 1

\* C7: N steps of dt followed by N steps of -dt bring every body's
\* position and velocity back to the original, within tolerance.
C7_Reversible ==
    RanBackAndForth =>
        /\ Close(PositionsOf(self.bodies), PositionsOf(call.before.start))
        /\ Close(VelocitiesOf(self.bodies), VelocitiesOf(call.before.start))

\* C8: after reset() the integrator is in the state of a newly constructed
\* one (same G) given the calls made since, records and results included.
C8_ResetDiscardsAll ==
    /\ self = fresh
    /\ Returned => outcome = simulate_return(fresh, Len(outcome.times))

C8_Witness ==
    /\ was_reset
    /\ Returned
    /\ Len(outcome.times) >= 1
    /\ Len(self.bodies) >= 1

PositiveRun ==
    /\ Returned
    /\ FLt(Zero, call.total_days)
    /\ FLt(Zero, call.dt)

\* n is x rounded up / cut off to a whole number
IsCeilOf(n, x) == FLt(FromInt(n - 1), x) /\ FLe(x, FromInt(n))
IsTruncOf(n, x) == FLe(FromInt(n), x) /\ FLt(x, FromInt(n + 1))

DurationRatio == FDiv(FMul(call.total_days, SecondsPerDay), call.dt)
IntervalRatio == FDiv(FMul(call.output_interval, SecondsPerDay), call.dt)

\* C9 as stated: for a positive duration and step size, simulate executes
\* ceil(total_days*86400/dt) steps and records a sample every
\* output_interval*86400/dt steps.
C9_CeilSteps ==
    PositiveRun =>
        /\ IsCeilOf(call.iters, DurationRatio)
        /\ \E k \in 1..(MaxSteps + 1) :
              /\ FromInt(k) = IntervalRatio
              /\ call.sampled = {u \in 0..(call.iters - 1) : u % k = 0}

\* C9 as amended: for a positive duration and step size, a simulate that
\* returns has executed int(total_days*86400/dt) steps, the quotient cut
\* off to a whole number, and has recorded a sample at every step index
\* that is a multiple of int(output_interval*86400/dt).
C9_TruncatedSteps ==
    PositiveRun =>
        /\ IsTruncOf(call.iters, DurationRatio)
        /\ call.iters >= 1 =>
              \E k \in 1..(MaxSteps + 1) :
                 /\ IsTruncOf(k, IntervalRatio)
                 /\ call.sampled = {u \in 0..(call.iters - 1) : u % k = 0}

C9_Witness ==
    /\ PositiveRun
    /\ call.iters >= 1
    /\ FromInt(call.iters) # DurationRatio
    /\ call.sampled # {}

SampleSteps(n, k) == {u \in 0..(n - 1) : u % k = 0}

\* C10: with total_steps >= 0 and output_steps >= 1 no sample is written
\* outside the total_steps//output_steps + 1 allocated rows, output_idx
\* counts the samples written, and the three returned series have the
\* length of {t in [0, total_steps) : t mod output_steps = 0}.
C10_SamplesFitRows ==
    call.made /\ call.total_steps >= 0 /\ call.output_steps >= 1 =>
        /\ outcome.kind # "raise"
        /\ Len(self.times) = (call.total_steps \div call.output_steps) + 1
        /\ pc = "loop" =>
              /\ call.sampled = SampleSteps(t, call.output_steps)
              /\ output_idx = Cardinality(call.sampled)
              /\ output_idx <= Len(self.times)
              /\ t < total_steps /\ IsOutputStep(t, output_steps)
                    => output_idx < Len(self.times)
        /\ Returned =>
              /\ Len(outcome.times) =
                    Cardinality(SampleSteps(call.total_steps,
                                            call.output_steps))
              /\ Len(outcome.positions) = Len(outcome.times)
              /\ Len(outcome.velocities) = Len(outcome.times)

C10_Witness ==
    /\ Returned
    /\ call.total_steps >= 1
    /\ call.output_steps >= 2
    /\ Len(outcome.times) = Len(self.times)

----------------------------------------------------------------------------
(* calculate_orbit_elements applied to each of its arguments *)

OrbitInit ==
    /\ IntegratorInit
    /\ lyap = NoLyap
    /\ \E M \in OrbitMasses :
         \E p \in OrbitPositions(M), v \in OrbitVelocities :
            orbit = [position |-> p, velocity |-> v, mass_primary |-> M,
                     result |-> NoOutcome]

OrbitElements ==
    /\ orbit.result.kind = "none"
    /\ orbit' = [orbit EXCEPT !.result =
                    [kind |-> "return",
                     value |-> calculate_orbit_elements(
                                  orbit.position, orbit.velocity,
                                  orbit.mass_primary)]]
    /\ UNCHANGED <<self, pc, locals, outcome, history, lyap>>

OrbitNext == OrbitElements

OrbitSpec == OrbitInit /\ [][OrbitNext]_vars

\* C6: argument_of_periapsis is 0 whenever e = 0 or |n| = 0, n = z x h;
\* in every other case it is the angle between n and e_vec, 2*pi minus it
\* when e_vec's z component is negative; it is never an undefined value.
C6_PeriapsisOfDegenerateOrbits ==
    orbit.result.kind = "return" =>
        LET ev == e_vector(orbit.position, orbit.velocity, orbit.mass_primary)
            n  == n_vector(orbit.position, orbit.velocity)
            e  == VNorm(ev)
            w  == orbit.result.value.argument_of_periapsis
            between == Arccos(NpDiv(VDot(n, ev), FMul(VNorm(n), e)))
        IN  /\ w.fn # "nan"
            /\ IF e = Zero \/ VNorm(n) = Zero
               THEN w = ZeroAngle
               ELSE w = IF FLt(ev[3], Zero) THEN TwoPiMinus(between)
                        ELSE between

----------------------------------------------------------------------------
(* calculate_lyapunov_exponent applied to each of its arguments *)

LyapInit ==
    /\ IntegratorInit
    /\ orbit = NoOrbit
    /\ \E n \in 0..MaxSamples :
         \E t2 \in SeqsUpTo(MovedSamples, MaxSamples), ts \in TimeSteps :
            lyap = [trajectory1 |-> [k \in 1..n |-> BaseSample],
                    trajectory2 |-> t2, time_step |-> ts,
                    result |-> NoOutcome]

Lyapunov ==
    /\ lyap.result.kind = "none"
    /\ \E r \in calculate_lyapunov_exponent(lyap.trajectory1,
                                             lyap.trajectory2,
                                             lyap.time_step) :
          lyap' = [lyap EXCEPT !.result = r]
    /\ UNCHANGED <<self, pc, locals, outcome, history, orbit>>

LyapNext == Lyapunov

LyapSpec == LyapInit /\ [][LyapNext]_vars

Called == lyap.result.kind # "none"

\* the distance between the two trajectories' first samples is zero
ZeroInitialSeparation ==
    /\ Len(lyap.trajectory1) >= 1
    /\ Len(lyap.trajectory2) >= 1
    /\ VNorm(VSub(lyap.trajectory1[1][2], lyap.trajectory2[1][2])) = Zero

\* C3: with a zero initial separation calculate_lyapunov_exponent fails
\* with InvalidInput; it neither returns a result nor raises another
\* exception.
C3_ZeroSeparationIsInvalidInput ==
    Called /\ ZeroInitialSeparation => lyap.result = Raise("InvalidInput")

\* the number of points of the fit window, the first half of the samples
FitWindow ==
    PairCount(lyap.trajectory1, lyap.trajectory2) \div 2

====
